---- MODULE Spec2Model ----
(***************************************************************************)
(* Model of the message mutations of src/iris/mutations/message.js:        *)
(* Mutation.addMessage (submission) and Mutation.deleteMessage (deletion). *)
(* The collaborators the mutations import (message store, thread store,    *)
(* participant registry, direct-message timestamps, permission tables,     *)
(* uploader, language detector) are modelled from their contracts.  The    *)
(* permission tables are read-only to the mutations: the answer of each    *)
(* permission lookup is an input of the request.                           *)
(* A request takes one step per operation it awaits, and each write it     *)
(* issues without awaiting lands in a step of its own; the steps of the    *)
(* requests in flight interleave.  Spec, DirectSpec and ContentSpec differ *)
(* in the submissions clients make: to story threads, to direct-message    *)
(* and missing threads, and with the shapes of content.                    *)
(***************************************************************************)
EXTENDS Integers, Sequences, FiniteSets, Bags, TLC

\* ------------------------------------------------------------------ bounds
\* Number of message ids the Message Store can hand out at the same time.
MaxMsgs == 3
\* Number of requests clients issue in a behaviour.
MaxRequests == 3

\* ------------------------------------------------------------------ values
\* JavaScript null / undefined (a record, so that it compares with records).
Null == [null |-> TRUE]

\* context.user: a signed-in user, or no current user.
Users == {"u1", "u2"}
NoUser == Null
CurrentUsers == {[id |-> u] : u \in Users} \cup {NoUser}
SignedIn == CurrentUsers \ {NoUser}

ThreadIds == {"t1", "t2", "t3"}
MsgIds == 1..MaxMsgs

\* Permission records of the usersCommunities / usersChannels tables; a lookup
\* answers with one of them, or with Null when the user has no record.
Member == [isOwner |-> FALSE, isModerator |-> FALSE, reputation |-> 1]
Moderator == [isOwner |-> FALSE, isModerator |-> TRUE, reputation |-> 2]
Owner == [isOwner |-> TRUE, isModerator |-> FALSE, reputation |-> 3]
PermValues == {Null, Member, Moderator, Owner}

\* ------------------------------------------------------------ Thread Store
\* t1 is an ordinary story thread, t2 a watercooler thread, and the Thread
\* Store has no thread t3.
ThreadStore ==
  [t \in ThreadIds |->
     CASE t = "t1" -> [id |-> "t1", communityId |-> "c1", channelId |-> "ch1",
                       watercooler |-> FALSE]
       [] t = "t2" -> [id |-> "t2", communityId |-> "c1", channelId |-> "ch1",
                       watercooler |-> TRUE]
       [] OTHER -> Null]

getThread(threadId) == ThreadStore[threadId]

\* --------------------------------------------------------- message content
\* A draft-js block: its type, its text and its data (a set of key/value
\* pairs).
CodeBlock(text, data) == [type |-> "code-block", text |-> text, data |-> data]
TextBlock(text) == [type |-> "unstyled", text |-> text, data |-> {}]

\* A content body is a string.  The model keeps of a string: whether it is
\* JSON (json), the value it encodes (value), and whether it is written the
\* way JSON.stringify writes it (canonical).  A JSON value is Null (the string
\* "null"), a document [blocks |-> ...] whose blocks are block records or
\* Null, or a value without blocks.
PlainBody == [json |-> FALSE, canonical |-> FALSE, value |-> Null]
DocBody(blocks, canonical) ==
  [json |-> TRUE, canonical |-> canonical, value |-> [blocks |-> blocks]]
NullBody == [json |-> TRUE, canonical |-> TRUE, value |-> Null]
ObjectBody == [json |-> TRUE, canonical |-> TRUE, value |-> [other |-> TRUE]]

\* JSON.parse: throws a SyntaxError on a string that is not JSON, and answers
\* the value the string encodes otherwise.
JSONparseThrows(body) == ~body.json
JSONparse(body) == body.value
\* JSON.stringify: the canonical string of the value.
JSONstringify(doc) == [json |-> TRUE, canonical |-> TRUE, value |-> doc]

\* toPlainText(toState(doc)): the text of the blocks, in order.
toPlainText(doc) == [i \in 1..Len(doc.blocks) |-> doc.blocks[i].text]

\* The names of languages are strings the code lower-cases: the model keeps
\* them as sequences of characters.
JavaScript == <<"J", "a", "v", "a", "S", "c", "r", "i", "p", "t">>
Python == <<"P", "y", "t", "h", "o", "n">>
Ruby == <<"R", "u", "b", "y">>
Cpp == <<"C", "+", "+">>
HTML == <<"H", "T", "M", "L">>
Unknown == <<"U", "n", "k", "n", "o", "w", "n">>

\* detectLang: the language of the first recognisable text; it throws on the
\* text "boom".
detectLangThrows(texts) == \E i \in 1..Len(texts) : texts[i] = "boom"
LangOf(text) ==
  CASE text = "js" -> JavaScript
    [] text = "py" -> Python
    [] text = "rb" -> Ruby
    [] text = "cpp" -> Cpp
    [] text = "html" -> HTML
    [] OTHER -> Unknown
RECURSIVE detectLang(_)
detectLang(texts) ==
  IF texts = <<>> THEN Unknown
  ELSE IF LangOf(Head(texts)) # Unknown THEN LangOf(Head(texts))
  ELSE detectLang(Tail(texts))

\* String.prototype.toLowerCase: every upper-case letter of the string is
\* replaced by its lower-case letter, every other character is kept.
UpperCase ==
  <<"A", "B", "C", "D", "E", "F", "G", "H", "I", "J", "K", "L", "M",
    "N", "O", "P", "Q", "R", "S", "T", "U", "V", "W", "X", "Y", "Z">>
LowerCase ==
  <<"a", "b", "c", "d", "e", "f", "g", "h", "i", "j", "k", "l", "m",
    "n", "o", "p", "q", "r", "s", "t", "u", "v", "w", "x", "y", "z">>
toLowerCaseChar(c) ==
  IF \E i \in 1..Len(UpperCase) : UpperCase[i] = c
  THEN LowerCase[CHOOSE i \in 1..Len(UpperCase) : UpperCase[i] = c]
  ELSE c
toLowerCase(s) == [i \in 1..Len(s) |-> toLowerCaseChar(s[i])]

\* The upload descriptor of a media message.
File1 == [name |-> "cat.png", size |-> 7, type |-> "image/png", path |-> "/tmp/up1"]

\* uploadImage(file, 'threads', threadId): the durable url.
uploadImage(file, namespace, threadId) ==
  [url |-> <<namespace, threadId, file.name>>]

\* ------------------------------------------------------------------ state
VARIABLES
  messages,        \* Message Store: the stored (undeleted) messages, each with
                   \* the fields the mutations read back
  participants,    \* Participant Registry: (thread, user) -> none/enabled/disabled
  dmLastActive,    \* direct-message threads whose last-active time was set
  dmLastSeen,      \* (thread, user) pairs whose last-seen time was set
  result,          \* the outcome of the last request
  issued,          \* the number of requests clients have issued
  inflight         \* the requests that have started and not yet ended, each
                   \* with its position, and the bag of the writes issued and
                   \* not yet landed

vars ==
  <<messages, participants, dmLastActive, dmLastSeen, result, issued, inflight>>

\* No request is in flight and no write is pending.
NoRequests == [requests |-> EmptyBag, writes |-> EmptyBag]

\* ------------------------------------------------------- request inputs
\* The bodies a draftjs submission is tried with: a string that is not JSON
\* and a document whose first block is a code block in a detectable language.
DraftBodies ==
  { PlainBody,
    DocBody(<<CodeBlock("js", {})>>, FALSE) }

MessageInput(threadId, threadType, messageType, body, file) ==
  [threadId |-> threadId, threadType |-> threadType,
   messageType |-> messageType, content |-> [body |-> body], file |-> file]

\* The (thread, threadType) pairs a client submits to: the story thread, the
\* watercooler thread and the missing thread as story threads, and a
\* direct-message thread, which the Thread Store does not hold.
Targets ==
  { <<"t1", "story">>, <<"t2", "story">>, <<"t3", "story">>,
    <<"t3", "directMessageThread">> }

\* The messages a client submits.
Messages ==
  UNION { { MessageInput(tg[1], tg[2], "text", PlainBody, Null),
            MessageInput(tg[1], tg[2], "media", PlainBody, File1),
            MessageInput(tg[1], tg[2], "sticker", PlainBody, Null) }
          \cup { MessageInput(tg[1], tg[2], "draftjs", b, Null) : b \in DraftBodies }
          : tg \in Targets }

\* The submissions of Spec, to the threads of the Thread Store: a text, a
\* media and an unknown-type message to the story thread and a text message
\* to the watercooler thread.
StoryMessages ==
  {m \in Messages :
     \/ m.threadId = "t1" /\ m.messageType \in {"text", "media", "sticker"}
     \/ m.threadId = "t2" /\ m.messageType = "text"}

\* The submissions of DirectSpec: a text message to the story thread, to the
\* missing thread and to the direct-message thread, and a media message to
\* the direct-message thread.
DirectSpecMessages ==
  {m \in Messages :
     \/ m.threadId \in {"t1", "t3"} /\ m.messageType = "text"
     \/ m.threadType = "directMessageThread" /\ m.messageType = "media"}

\* The submissions of ContentSpec: every shape of content, to the story
\* thread.
File2 == [name |-> "dog.gif", size |-> 9, type |-> "image/gif", path |-> "/tmp/up2"]

ContentBodies ==
  { PlainBody,
    NullBody,
    ObjectBody,
    DocBody(<<>>, FALSE),
    DocBody(<<Null>>, TRUE),
    DocBody(<<CodeBlock("js", {})>>, FALSE),
    DocBody(<<CodeBlock("py", {<<"k", "v">>}), TextBlock("hello")>>, TRUE),
    DocBody(<<CodeBlock("rb", {})>>, TRUE),
    DocBody(<<CodeBlock("cpp", {})>>, FALSE),
    DocBody(<<CodeBlock("html", {<<"k", "v">>})>>, FALSE),
    DocBody(<<CodeBlock("boom", {<<"k", "v">>})>>, FALSE),
    DocBody(<<CodeBlock("??", {<<"k", "v">>})>>, TRUE),
    DocBody(<<CodeBlock("??", {}), TextBlock("py")>>, FALSE),
    DocBody(<<TextBlock("js"), CodeBlock("js", {})>>, FALSE) }

ContentMessages ==
  { MessageInput("t1", "story", "text", PlainBody, Null) }
  \cup { MessageInput("t1", "story", "media", PlainBody, f) : f \in {File1, File2} }
  \cup { MessageInput("t1", "story", "draftjs", b, Null) : b \in ContentBodies }

\* The submissions of ContentSpec, to the story thread: the second file, and
\* draftjs bodies that are not JSON, whose first block is null, and whose
\* first block is code in a detected language and in one the detector throws
\* on.
ContentSpecBodies ==
  { PlainBody,
    DocBody(<<Null>>, TRUE),
    DocBody(<<CodeBlock("html", {<<"k", "v">>})>>, FALSE),
    DocBody(<<CodeBlock("boom", {<<"k", "v">>})>>, FALSE) }
ContentSpecMessages ==
  {m \in ContentMessages :
     \/ m.messageType = "media" /\ m.file = File2
     \/ m.messageType = "draftjs" /\ m.content.body \in ContentSpecBodies}

\* What the collaborators of a submission do: the upload or the store write
\* fails (fault), and the record the permission loader answers with.
Faults == {"none", "upload", "store"}
SubmitEnvs ==
  {[fault |-> "none", permissions |-> p] : p \in PermValues}
  \cup {[fault |-> f, permissions |-> Null] : f \in Faults \ {"none"}}

\* The answers that matter to a submission: none without a current user, an
\* upload failure for a media message, a store failure for a message type
\* that is stored, and a permission record for a message that is not a
\* direct-message-thread message.
SubmitEnvsOf(user, message) ==
  {env \in SubmitEnvs :
     /\ user = NoUser => env = [fault |-> "none", permissions |-> Null]
     /\ env.fault = "upload" => message.messageType = "media"
     /\ env.fault = "store"
          => message.messageType \in {"text", "draftjs", "media"}
     /\ env.permissions # Null
          => message.threadType # "directMessageThread"}

\* ---------------------------------------------------------- collaborators
\* ../models/message.  A row of the Message Store keeps the fields of the
\* stored message the mutations read back.
Row(stored) ==
  [id |-> stored.id, threadId |-> stored.threadId,
   threadType |-> stored.threadType, senderId |-> stored.senderId]
userMessagesInThread(msgs, threadId, userId) ==
  {m \in msgs : m.threadId = threadId /\ m.senderId = userId}
userHasMessagesInThread(msgs, threadId, userId) ==
  userMessagesInThread(msgs, threadId, userId) # {}
getMessage(msgs, id) ==
  IF \E m \in msgs : m.id = id THEN CHOOSE m \in msgs : m.id = id ELSE Null
UsedIds(msgs) == {m.id : m \in msgs}
FreshId(msgs) ==
  IF MsgIds \ UsedIds(msgs) = {} THEN 0
  ELSE CHOOSE i \in MsgIds \ UsedIds(msgs) :
         \A j \in MsgIds \ UsedIds(msgs) : i <= j
\* storeMessage(message, userId): the stored record, with the identity the
\* store assigns and the sender.
StoredMessage(msgs, message, userId) ==
  [id |-> FreshId(msgs), threadId |-> message.threadId,
   threadType |-> message.threadType, messageType |-> message.messageType,
   content |-> message.content, file |-> message.file, senderId |-> userId]
\* deleteMessage(userId, id)
MessagesWithout(msgs, id) == {m \in msgs : m.id # id}

\* ../models/usersThreads: the creations are idempotent, an existing record
\* is kept as it is.
createParticipantInThread(parts, threadId, userId) ==
  IF parts[<<threadId, userId>>] # "none" THEN parts
  ELSE [parts EXCEPT ![<<threadId, userId>>] = "enabled"]
createParticipantWithoutNotificationsInThread(parts, threadId, userId) ==
  IF parts[<<threadId, userId>>] # "none" THEN parts
  ELSE [parts EXCEPT ![<<threadId, userId>>] = "disabled"]
deleteParticipantInThread(parts, threadId, userId) ==
  [parts EXCEPT ![<<threadId, userId>>] = "none"]

\* -------------------------------------------------------------- outcomes
\* A request ends with a returned value (how = "returned") or with a
\* rejection (how = "thrown").  tag is "ok" or names the error; value is the
\* returned payload.
NoValue == [none |-> TRUE]
Outcome(op, how, tag, value) ==
  [op |-> op, how |-> how, tag |-> tag, value |-> value]
True == [bool |-> TRUE]
\* What the state keeps of the last request: the operation, how it ended, the
\* error message of an upstream failure (detail), whether the returned
\* message carries contextPermissions (view), and the last collaborator call
\* it issued (last).
Kind(outcome, cs) ==
  [op |-> outcome.op, how |-> outcome.how, tag |-> outcome.tag,
   last |-> IF cs = <<>> THEN "" ELSE cs[Len(cs)],
   detail |-> IF outcome.tag = "UpstreamFailure" THEN outcome.value.message
              ELSE "",
   view |-> IF outcome.op # "addMessage" \/ outcome.tag # "ok" THEN "none"
            ELSE IF "contextPermissions" \in DOMAIN outcome.value
            THEN "contextPermissions" ELSE "message"]

Range(seq) == {seq[i] : i \in 1..Len(seq)}

\* The message types the dispatch of a submission knows.
KnownTypes == {"text", "draftjs", "media"}
RegistrationCalls ==
  {"createParticipantInThread", "createParticipantWithoutNotificationsInThread"}
TimestampCalls ==
  {"setDirectMessageThreadLastActive", "setUserLastSeenInDirectMessageThread"}

\* ------------------------------------------------------------- addMessage
\* Lines 49-53: the direct-message timestamps.
addMessageTimestamps(active, seen, user, message) ==
  IF message.threadType = "directMessageThread"
  THEN [active |-> active \cup {message.threadId},
        seen |-> seen \cup {<<message.threadId, user.id>>}]
  ELSE [active |-> active, seen |-> seen]

\* Mutant of addMessageRegistrations: the watercooler registration is
\* missing.
addMessageRegistrations_NoWatercooler(message) ==
  LET thread == getThread(message.threadId)
  IN IF message.threadType = "story" /\ (thread # Null /\ ~thread.watercooler)
     THEN <<"createParticipantInThread">> ELSE <<>>

\* Mutant of addMessageRegistrations: the story branch does not exclude
\* watercooler threads.
addMessageRegistrations_Both(message) ==
  LET thread == getThread(message.threadId)
  IN (IF message.threadType = "story" /\ thread # Null
      THEN <<"createParticipantInThread">> ELSE <<>>)
     \o (IF thread # Null /\ thread.watercooler
         THEN <<"createParticipantWithoutNotificationsInThread">> ELSE <<>>)

\* Lines 55-67: the registrations a submission issues, in order.
addMessageRegistrations(message) ==
  LET thread == getThread(message.threadId)
  IN (IF message.threadType = "story" /\ (thread # Null /\ ~thread.watercooler)
      THEN <<"createParticipantInThread">> ELSE <<>>)
     \o (IF thread # Null /\ thread.watercooler
         THEN <<"createParticipantWithoutNotificationsInThread">> ELSE <<>>)

\* Lines 55-67: the Participant Registry after the registrations.
RECURSIVE applyRegistrations(_, _, _, _)
applyRegistrations(parts, regs, threadId, userId) ==
  IF regs = <<>> THEN parts
  ELSE applyRegistrations(
         IF Head(regs) = "createParticipantInThread"
         THEN createParticipantInThread(parts, threadId, userId)
         ELSE createParticipantWithoutNotificationsInThread(parts, threadId, userId),
         Tail(regs), threadId, userId)

addMessageParticipants(parts, user, message) ==
  applyRegistrations(parts, addMessageRegistrations(message),
                     message.threadId, user.id)

\* Lines 47-67: the calls of the side-effect steps.
addMessageSideEffectCalls(message) ==
  <<"getThread">>
  \o (IF message.threadType = "directMessageThread"
      THEN <<"setDirectMessageThreadLastActive",
             "setUserLastSeenInDirectMessageThread">>
      ELSE <<>>)
  \o addMessageRegistrations(message)

\* Lines 73-76: what reading the draftjs body throws: a SyntaxError when the
\* string is not JSON (line 73), a TypeError when the value is null (the
\* destructuring of line 74) or when the first block is null (blocks[0].type,
\* line 76); "" when it throws nothing.
draftjsThrows(body) ==
  IF JSONparseThrows(body) THEN "SyntaxError"
  ELSE IF JSONparse(body) = Null THEN "TypeError"
  ELSE IF /\ "blocks" \in DOMAIN JSONparse(body)
          /\ Len(JSONparse(body).blocks) > 0
          /\ JSONparse(body).blocks[1] = Null
  THEN "TypeError"
  ELSE ""

\* Mutant of draftjsBody: the language "Unknown" is tagged like any other.
draftjsBody_UnknownTagged(body) ==
  LET parsedMessage == JSONparse(body)
  IN IF /\ "blocks" \in DOMAIN parsedMessage
        /\ Len(parsedMessage.blocks) > 0
        /\ parsedMessage.blocks[1].type = "code-block"
     THEN LET texts == toPlainText(parsedMessage)
              lang == IF detectLangThrows(texts) THEN <<>> ELSE detectLang(texts)
          IN IF lang # <<>>
             THEN JSONstringify(
                    [parsedMessage EXCEPT
                       !.blocks[1].data = {<<"syntax", toLowerCase(lang)>>}])
             ELSE body
     ELSE body

\* Lines 73-92: the body a draftjs message is stored with, when reading it
\* throws nothing.  lang is undefined (<<>>) when the detector throws.
draftjsBody(body) ==
  LET parsedMessage == JSONparse(body)
  IN IF /\ "blocks" \in DOMAIN parsedMessage
        /\ Len(parsedMessage.blocks) > 0
        /\ parsedMessage.blocks[1].type = "code-block"
     THEN LET texts == toPlainText(parsedMessage)
              lang == IF detectLangThrows(texts) THEN <<>> ELSE detectLang(texts)
          IN IF lang # <<>> /\ lang # Unknown
             THEN JSONstringify(
                    [parsedMessage EXCEPT
                       !.blocks[1].data = {<<"syntax", toLowerCase(lang)>>}])
             ELSE body
     ELSE body

\* Lines 104-110 and 141-148: the contextPermissions view; communityId is
\* part of it on the media path only.
contextPermissions(permissions, communityId, withCommunityId) ==
  LET view == [reputation |-> IF permissions # Null
                              THEN permissions.reputation ELSE 0,
               isModerator |-> IF permissions # Null
                               THEN permissions.isModerator ELSE FALSE,
               isOwner |-> IF permissions # Null
                           THEN permissions.isOwner ELSE FALSE]
  IN IF withCommunityId THEN [communityId |-> communityId] @@ view ELSE view

\* Mutant of enrich: a direct-message-thread message is enriched like any
\* other.
enrich_NoDMReturn(stored, permissions, withCommunityId) ==
  LET thread == getThread(stored.threadId)
  IN IF thread = Null
     THEN [ok |-> FALSE, value |-> [message |-> "TypeError"],
           calls |-> <<"loaders.thread.load">>]
     ELSE [ok |-> TRUE,
           value |-> stored @@
             [contextPermissions |->
                contextPermissions(permissions, thread.communityId,
                                   withCommunityId)],
           calls |-> <<"loaders.thread.load",
                       "loaders.userPermissionsInCommunity.load">>]

\* Lines 96-111 and 133-149: the value the promise chain resolves with after
\* storeMessage; permissions is the answer of the permission loader and
\* withCommunityId is TRUE on the media path.  Destructuring the thread the
\* loader did not find throws a TypeError.
enrich(stored, permissions, withCommunityId) ==
  IF stored.threadType = "directMessageThread"
  THEN [ok |-> TRUE, value |-> stored, calls |-> <<>>]
  ELSE LET thread == getThread(stored.threadId)
       IN IF thread = Null
          THEN [ok |-> FALSE, value |-> [message |-> "TypeError"],
                calls |-> <<"loaders.thread.load">>]
          ELSE [ok |-> TRUE,
                value |-> stored @@
                  [contextPermissions |->
                     contextPermissions(permissions, thread.communityId,
                                        withCommunityId)],
                calls |-> <<"loaders.thread.load",
                            "loaders.userPermissionsInCommunity.load">>]

\* Lines 95-113 and 132-151: storeMessage, the enrichment, and the catch
\* that turns a rejection into a returned UserError.
storeAndEnrich(msgs, user, message, fault, permissions, withCommunityId) ==
  IF fault = "store"
  THEN [messages |-> msgs, stored |-> Null,
        result |-> Outcome("addMessage", "returned", "UpstreamFailure",
                           [message |-> "store error"]),
        calls |-> <<"storeMessage">>]
  ELSE LET stored == StoredMessage(msgs, message, user.id)
           e == enrich(stored, permissions, withCommunityId)
       IN [messages |-> msgs \cup {Row(stored)}, stored |-> stored,
           result |-> Outcome("addMessage", "returned",
                              IF e.ok THEN "ok" ELSE "UpstreamFailure", e.value),
           calls |-> <<"storeMessage">> \o e.calls]

\* Mutant of mediaMessage: the upload descriptor is stored as the file.
mediaMessage_KeepFile(message, url) ==
  [message EXCEPT !.content = [body |-> url]]

\* Lines 117-131: the message the media path stores.
mediaMessage(message, url) ==
  [message EXCEPT !.content = [body |-> url],
                  !.file = [name |-> message.file.name,
                            size |-> message.file.size,
                            type |-> message.file.type]]

\* Mutant of addMessageMedia: the message is stored whether or not the upload
\* succeeded.
addMessageMedia_StoreAnyway(msgs, user, message, fault, permissions) ==
  LET url == uploadImage(message.file, "threads", message.threadId)
      r == storeAndEnrich(msgs, user, mediaMessage(message, url),
                          fault, permissions, TRUE)
  IN [r EXCEPT !.calls = <<"uploadImage">> \o @]

\* Lines 117-151: the media path: upload, then store and enrich; a failed
\* upload rejects the chain before storeMessage.
addMessageMedia(msgs, user, message, fault, permissions) ==
  IF fault = "upload"
  THEN [messages |-> msgs, stored |-> Null,
        result |-> Outcome("addMessage", "returned", "UpstreamFailure",
                           [message |-> "upload error"]),
        calls |-> <<"uploadImage">>]
  ELSE LET url == uploadImage(message.file, "threads", message.threadId)
           r == storeAndEnrich(msgs, user, mediaMessage(message, url),
                               fault, permissions, TRUE)
       IN [r EXCEPT !.calls = <<"uploadImage">> \o @]

\* Mutant of addMessageDispatch: a message of an unknown type is stored like
\* a text message.
addMessageDispatch_UnknownAsText(msgs, user, message, fault, permissions) ==
  IF message.messageType = "draftjs" /\ draftjsThrows(message.content.body) # ""
  THEN [messages |-> msgs, stored |-> Null,
        result |-> Outcome("addMessage", "thrown",
                           draftjsThrows(message.content.body), NoValue),
        calls |-> <<>>]
  ELSE IF message.messageType = "media"
  THEN addMessageMedia(msgs, user, message, fault, permissions)
  ELSE storeAndEnrich(
         msgs, user,
         IF message.messageType = "draftjs"
         THEN [message EXCEPT !.content.body = draftjsBody(@)]
         ELSE message,
         fault, permissions, FALSE)

\* Lines 69-154: classification and dispatch on messageType.
addMessageDispatch(msgs, user, message, fault, permissions) ==
  IF message.messageType = "text" \/ message.messageType = "draftjs"
  THEN IF message.messageType = "draftjs"
          /\ draftjsThrows(message.content.body) # ""
       THEN [messages |-> msgs, stored |-> Null,
             result |-> Outcome("addMessage", "thrown",
                                draftjsThrows(message.content.body), NoValue),
             calls |-> <<>>]
       ELSE storeAndEnrich(
              msgs, user,
              IF message.messageType = "draftjs"
              THEN [message EXCEPT !.content.body = draftjsBody(@)]
              ELSE message,
              fault, permissions, FALSE)
  ELSE IF message.messageType = "media"
  THEN addMessageMedia(msgs, user, message, fault, permissions)
  ELSE [messages |-> msgs, stored |-> Null,
        result |-> Outcome("addMessage", "returned", "UnknownMessageType",
                           NoValue),
        calls |-> <<>>]

\* Lines 36-155: the request run alone from the stores st, every write it
\* issues landed.
addMessageRun(st, user, message, fault, permissions) ==
  IF user = NoUser
  THEN [messages |-> st.messages, participants |-> st.participants,
        dmLastActive |-> st.dmLastActive, dmLastSeen |-> st.dmLastSeen,
        stored |-> Null,
        result |-> Outcome("addMessage", "returned", "Unauthenticated", NoValue),
        calls |-> <<>>]
  ELSE LET ts == addMessageTimestamps(st.dmLastActive, st.dmLastSeen, user,
                                      message)
           d == addMessageDispatch(st.messages, user, message, fault,
                                   permissions)
       IN [messages |-> d.messages,
           participants |-> addMessageParticipants(st.participants, user,
                                                   message),
           dmLastActive |-> ts.active, dmLastSeen |-> ts.seen,
           stored |-> d.stored,
           result |-> d.result,
           calls |-> addMessageSideEffectCalls(message) \o d.calls]

\* The stores of the current state.
Stores ==
  [messages |-> messages, participants |-> participants,
   dmLastActive |-> dmLastActive, dmLastSeen |-> dmLastSeen]

\* ---------------------------------------------------------- deleteMessage
\* Lines 184-188: canModerate.  Reading a flag of a permission record that
\* is null throws a TypeError; || stops at the first true operand.
canModerate(channelPermissions, communityPermissions) ==
  IF channelPermissions = Null THEN "TypeError"
  ELSE IF channelPermissions.isOwner THEN "true"
  ELSE IF communityPermissions = Null THEN "TypeError"
  ELSE IF communityPermissions.isOwner THEN "true"
  ELSE IF channelPermissions.isModerator THEN "true"
  ELSE IF communityPermissions.isModerator THEN "true"
  ELSE "false"

\* Mutant of deleteMessageAuthorization: the direct-message check is missing.
deleteMessageAuthorization_NoDMCheck(user, message, channelPermissions, communityPermissions) ==
  IF message.senderId # user.id
  THEN LET thread == getThread(message.threadId)
       IN IF thread = Null
          THEN [tag |-> "TypeError", calls |-> <<"getThread">>]
          ELSE LET can == canModerate(channelPermissions, communityPermissions)
               IN [tag |-> CASE can = "true" -> "ok"
                             [] can = "false" -> "Forbidden"
                             [] OTHER -> "TypeError",
                   calls |-> <<"getThread", "getUserPermissionsInCommunity",
                               "getUserPermissionsInChannel">>]
  ELSE [tag |-> "ok", calls |-> <<>>]

\* Mutant of deleteMessageAuthorization: the sender is authorized like any
\* other requester.
deleteMessageAuthorization_SenderToo(user, message, channelPermissions, communityPermissions) ==
  IF message.threadType = "directMessageThread"
  THEN [tag |-> "Forbidden", calls |-> <<>>]
  ELSE LET thread == getThread(message.threadId)
       IN IF thread = Null
          THEN [tag |-> "TypeError", calls |-> <<"getThread">>]
          ELSE LET can == canModerate(channelPermissions, communityPermissions)
               IN [tag |-> CASE can = "true" -> "ok"
                             [] can = "false" -> "Forbidden"
                             [] OTHER -> "TypeError",
                   calls |-> <<"getThread", "getUserPermissionsInCommunity",
                               "getUserPermissionsInChannel">>]

\* Lines 169-193: the authorization of a deletion; tag is "ok" or the error
\* the request is rejected with.  channelPermissions and communityPermissions
\* are the answers of the two permission lookups.
deleteMessageAuthorization(user, message, channelPermissions, communityPermissions) ==
  IF message.senderId # user.id
  THEN IF message.threadType = "directMessageThread"
       THEN [tag |-> "Forbidden", calls |-> <<>>]
       ELSE LET thread == getThread(message.threadId)
            IN IF thread = Null
               THEN [tag |-> "TypeError", calls |-> <<"getThread">>]
               ELSE LET can == canModerate(channelPermissions,
                                           communityPermissions)
                    IN [tag |-> CASE can = "true" -> "ok"
                                  [] can = "false" -> "Forbidden"
                                  [] OTHER -> "TypeError",
                        calls |-> <<"getThread", "getUserPermissionsInCommunity",
                                    "getUserPermissionsInChannel">>]
  ELSE [tag |-> "ok", calls |-> <<>>]

\* Mutant of deleteMessageRetraction: the record removed is the deleter's.
deleteMessageRetraction_Deleter(msgs, parts, user, message) ==
  LET remaining == MessagesWithout(msgs, message.id)
  IN IF message.threadType = "directMessageThread"
     THEN [messages |-> remaining, participants |-> parts,
           calls |-> <<"deleteMessage">>]
     ELSE IF userHasMessagesInThread(remaining, message.threadId, user.id)
     THEN [messages |-> remaining, participants |-> parts,
           calls |-> <<"deleteMessage", "userHasMessagesInThread">>]
     ELSE [messages |-> remaining,
           participants |-> deleteParticipantInThread(parts, message.threadId,
                                                      user.id),
           calls |-> <<"deleteMessage", "userHasMessagesInThread",
                       "deleteParticipantInThread">>]

\* Lines 197-213: the deletion and the participant retraction.
deleteMessageRetraction(msgs, parts, user, message) ==
  LET remaining == MessagesWithout(msgs, message.id)
  IN IF message.threadType = "directMessageThread"
     THEN [messages |-> remaining, participants |-> parts,
           calls |-> <<"deleteMessage">>]
     ELSE IF userHasMessagesInThread(remaining, message.threadId, message.senderId)
     THEN [messages |-> remaining, participants |-> parts,
           calls |-> <<"deleteMessage", "userHasMessagesInThread">>]
     ELSE [messages |-> remaining,
           participants |-> deleteParticipantInThread(parts, message.threadId,
                                                      message.senderId),
           calls |-> <<"deleteMessage", "userHasMessagesInThread",
                       "deleteParticipantInThread">>]

\* Mutant of deleteMessagePrecheck: a message that does not exist counts as
\* deleted.
deleteMessagePrecheck_MissingIsDone(msgs, user, id) ==
  IF user = NoUser
  THEN [how |-> "thrown", tag |-> "Unauthenticated", calls |-> <<>>]
  ELSE IF getMessage(msgs, id) = Null
  THEN [how |-> "returned", tag |-> "ok", calls |-> <<"getMessage">>]
  ELSE [how |-> "returned", tag |-> "proceed", calls |-> <<"getMessage">>]

\* Mutant of deleteMessagePrecheck: the message is looked up before the
\* current user is checked.
deleteMessagePrecheck_LookupFirst(msgs, user, id) ==
  IF getMessage(msgs, id) = Null
  THEN [how |-> "thrown", tag |-> "NotFound", calls |-> <<"getMessage">>]
  ELSE IF user = NoUser
  THEN [how |-> "thrown", tag |-> "Unauthenticated", calls |-> <<"getMessage">>]
  ELSE [how |-> "returned", tag |-> "proceed", calls |-> <<"getMessage">>]

\* Lines 162-167: the checks before the authorization; tag is "proceed" when
\* the request goes on.
deleteMessagePrecheck(msgs, user, id) ==
  IF user = NoUser
  THEN [how |-> "thrown", tag |-> "Unauthenticated", calls |-> <<>>]
  ELSE IF getMessage(msgs, id) = Null
  THEN [how |-> "thrown", tag |-> "NotFound", calls |-> <<"getMessage">>]
  ELSE [how |-> "returned", tag |-> "proceed", calls |-> <<"getMessage">>]

\* Lines 156-214: the request run alone from the stores st.
deleteMessageRun(st, user, id, channelPermissions, communityPermissions) ==
  LET unchanged(how, tag, cs) ==
        [messages |-> st.messages, participants |-> st.participants,
         dmLastActive |-> st.dmLastActive, dmLastSeen |-> st.dmLastSeen,
         result |-> Outcome("deleteMessage", how, tag, NoValue),
         calls |-> cs]
      pre == deleteMessagePrecheck(st.messages, user, id)
      message == getMessage(st.messages, id)
  IN IF pre.tag # "proceed"
     THEN unchanged(pre.how, pre.tag, pre.calls)
     ELSE LET auth == deleteMessageAuthorization(
                        user, message, channelPermissions, communityPermissions)
          IN IF auth.tag # "ok"
             THEN unchanged("thrown", auth.tag, pre.calls \o auth.calls)
             ELSE LET d == deleteMessageRetraction(
                             st.messages, st.participants, user, message)
                  IN [messages |-> d.messages,
                      participants |-> d.participants,
                      dmLastActive |-> st.dmLastActive,
                      dmLastSeen |-> st.dmLastSeen,
                      result |-> Outcome("deleteMessage", "returned", "ok", True),
                      calls |-> pre.calls \o auth.calls \o d.calls]

\* ---------------------------------------------------------------- steps
\* A mutation is an async function: it runs in turns, and returns to the
\* event loop at every await.  A request in flight is a record of the bag
\* inflight.requests: its operation, the locals it still reads, and the
\* operation it waits for (pc).  A step is the landing of one awaited
\* operation and the turn of the request that follows it, up to the next
\* await.  The requests in flight take their steps in any order, and a new
\* request is called whatever is in flight.
\* The writes of lines 51, 52, 59 and 63 are issued and not awaited: each
\* lands in a step of its own, also after the request has returned.

\* The request r of inflight.requests goes on as r2.
Becomes(r, r2) ==
  [inflight EXCEPT
     !.requests = (@ (-) SetToBag({r})) (+) SetToBag({r2})]
\* The request r of inflight.requests ends.
Gone(r) == [inflight EXCEPT !.requests = @ (-) SetToBag({r})]
\* A request of the operation op waits for pc.
Waits(r, op, pc) == BagIn(r, inflight.requests) /\ r.op = op /\ r.pc = pc

\* Lines 51, 52, 59, 63: the writes a submission issues without awaiting.
issuedWrites(user, message) ==
  {[call |-> c, threadId |-> message.threadId, userId |-> user.id]
     : c \in Range(addMessageSideEffectCalls(message)) \ {"getThread"}}

\* Lines 114-117: a media submission waits for its upload, every other one for
\* the store write.
firstWait(message) ==
  IF message.messageType = "media" THEN "uploadImage" ELSE "storeMessage"

\* Lines 41-47: a submission is called.  Without a current user it returns the
\* error at once; otherwise it issues getThread and waits for it.
addMessageCall(user, message) ==
  /\ issued < MaxRequests
  /\ issued' = issued + 1
  /\ IF user = NoUser
     THEN /\ result' = Kind(addMessageRun(Stores, user, message, "none",
                                          Null).result, <<>>)
          /\ UNCHANGED inflight
     ELSE /\ inflight' =
               [inflight EXCEPT
                  !.requests = @ (+) SetToBag({[op |-> "addMessage",
                                                user |-> user,
                                                message |-> message,
                                                pc |-> "getThread"]})]
          /\ UNCHANGED result
  /\ UNCHANGED <<messages, participants, dmLastActive, dmLastSeen>>

\* Lines 47-95, 114-117 and 152-154: getThread answers.  The submission issues
\* its side-effect writes and runs until it waits for the upload or for the
\* store write; it ends here when reading the draftjs body throws and when
\* the messageType is unknown.
addMessageBegin(r) ==
  /\ Waits(r, "addMessage", "getThread")
  /\ LET d == addMessageDispatch(messages, r.user, r.message, "none", Null)
         waits == d.calls # <<>>
         prepared == IF r.message.messageType = "draftjs" /\ waits
                     THEN [r.message EXCEPT !.content.body = draftjsBody(@)]
                     ELSE r.message
         next == IF waits
                 THEN Becomes(r, [r EXCEPT !.message = prepared,
                                           !.pc = firstWait(r.message)])
                 ELSE Gone(r)
     IN /\ inflight' =
             [next EXCEPT
                !.writes = @ (+) SetToBag(issuedWrites(r.user, r.message))]
        /\ result' = IF waits THEN result
                     ELSE Kind(d.result, addMessageSideEffectCalls(r.message))
  /\ UNCHANGED <<messages, participants, dmLastActive, dmLastSeen, issued>>

\* Lines 51, 52, 59, 63: a write that was issued lands.
writeLands(w) ==
  /\ BagIn(w, inflight.writes)
  /\ participants' =
       IF w.call \in RegistrationCalls
       THEN applyRegistrations(participants, <<w.call>>, w.threadId, w.userId)
       ELSE participants
  /\ dmLastActive' =
       IF w.call = "setDirectMessageThreadLastActive"
       THEN dmLastActive \cup {w.threadId} ELSE dmLastActive
  /\ dmLastSeen' =
       IF w.call = "setUserLastSeenInDirectMessageThread"
       THEN dmLastSeen \cup {<<w.threadId, w.userId>>} ELSE dmLastSeen
  /\ inflight' = [inflight EXCEPT !.writes = @ (-) SetToBag({w})]
  /\ UNCHANGED <<messages, result, issued>>

\* Lines 117-131 and 151: the upload answers.  A failed upload ends the
\* submission with the error the catch returns; otherwise the submission
\* waits for the store write of the message built from the url.
addMessageUpload(r, fault) ==
  /\ Waits(r, "addMessage", "uploadImage")
  /\ IF fault = "upload"
     THEN /\ result' =
               Kind(addMessageMedia(messages, r.user, r.message, fault,
                                    Null).result,
                    addMessageSideEffectCalls(r.message) \o <<"uploadImage">>)
          /\ inflight' = Gone(r)
     ELSE /\ inflight' =
               Becomes(r, [r EXCEPT
                  !.message =
                     mediaMessage(r.message,
                       uploadImage(r.message.file, "threads",
                                   r.message.threadId)),
                  !.pc = "storeMessage"])
          /\ UNCHANGED result
  /\ UNCHANGED <<messages, participants, dmLastActive, dmLastSeen, issued>>

\* The messages the deletions in flight fetched.  The Message Store assigns
\* an identity that was never assigned before: the identity of a message
\* that was fetched and deleted since is not given to a new message.
Fetched ==
  {r.message : r \in {q \in BagToSet(inflight.requests) :
                        q.op = "deleteMessage" /\ q.pc # "getMessage"}}

\* Lines 95-98, 113 and 132-135, 151: the store write answers.  A failed
\* write ends the submission with the error the catch returns; a stored
\* direct-message-thread message is returned as it is; for every other
\* stored message the submission waits for the thread loader.
addMessageStore(r, fault) ==
  /\ Waits(r, "addMessage", "storeMessage")
  /\ fault = "none" => UsedIds(messages \cup Fetched) # MsgIds
  /\ LET s == storeAndEnrich(messages \cup Fetched, r.user, r.message, fault,
                             Null, r.message.messageType = "media")
     IN /\ messages' = IF fault = "store" THEN messages
                       ELSE messages \cup {Row(s.stored)}
        /\ IF fault = "store" \/ r.message.threadType = "directMessageThread"
           THEN /\ result' = Kind(s.result, <<"storeMessage">>)
                /\ inflight' = Gone(r)
           ELSE /\ inflight' =
                     Becomes(r, [r EXCEPT !.message = s.stored,
                                          !.pc = "loaders.thread.load"])
                /\ UNCHANGED result
  /\ UNCHANGED <<participants, dmLastActive, dmLastSeen, issued>>

\* Lines 98-99, 113 and 135-136, 151: the thread loader answers.  When it
\* found no thread the destructuring throws and the submission ends with the
\* error the catch returns; otherwise the submission waits for the
\* permission loader.
addMessageLoadThread(r) ==
  /\ Waits(r, "addMessage", "loaders.thread.load")
  /\ LET e == enrich(r.message, Null, r.message.messageType = "media")
     IN IF e.ok
        THEN /\ inflight' =
                  Becomes(r, [r EXCEPT
                     !.pc = "loaders.userPermissionsInCommunity.load"])
             /\ UNCHANGED result
        ELSE /\ result' = Kind(Outcome("addMessage", "returned",
                                       "UpstreamFailure", e.value), e.calls)
             /\ inflight' = Gone(r)
  /\ UNCHANGED <<messages, participants, dmLastActive, dmLastSeen, issued>>

\* Lines 99-113 and 136-151: the permission loader answers and the submission
\* ends with the enriched message.
addMessageEnd(r, permissions) ==
  /\ Waits(r, "addMessage", "loaders.userPermissionsInCommunity.load")
  /\ LET e == enrich(r.message, permissions, r.message.messageType = "media")
     IN result' = Kind(Outcome("addMessage", "returned",
                               IF e.ok THEN "ok" ELSE "UpstreamFailure",
                               e.value), e.calls)
  /\ inflight' = Gone(r)
  /\ UNCHANGED <<messages, participants, dmLastActive, dmLastSeen, issued>>

\* Lines 162-166: a deletion is called.  Without a current user it throws at
\* once; otherwise it issues getMessage and waits for it.
deleteMessageCall(user, id) ==
  /\ issued < MaxRequests
  /\ issued' = issued + 1
  /\ IF user = NoUser
     THEN /\ result' =
               Kind(Outcome("deleteMessage",
                            deleteMessagePrecheck(messages, user, id).how,
                            deleteMessagePrecheck(messages, user, id).tag,
                            NoValue), <<>>)
          /\ UNCHANGED inflight
     ELSE /\ inflight' =
               [inflight EXCEPT
                  !.requests = @ (+) SetToBag({[op |-> "deleteMessage",
                                                user |-> user, id |-> id,
                                                pc |-> "getMessage"]})]
          /\ UNCHANGED result
  /\ UNCHANGED <<messages, participants, dmLastActive, dmLastSeen>>

\* The deletion of message was authorized: deleteMessage is issued (line 197).
Authorized(message) ==
  [op |-> "deleteMessage", message |-> message, pc |-> "deleteMessage"]

\* Lines 166-175 and 197: getMessage answers.  The deletion ends here when
\* there is no such message and when another user's direct-message-thread
\* message is to be deleted; the sender's deletion issues deleteMessage;
\* every other deletion issues getThread.
deleteMessageBegin(r) ==
  /\ Waits(r, "deleteMessage", "getMessage")
  /\ LET pre == deleteMessagePrecheck(messages, r.user, r.id)
         message == getMessage(messages, r.id)
         auth == IF pre.tag = "proceed"
                 THEN deleteMessageAuthorization(r.user, message, Null, Null)
                 ELSE [tag |-> pre.tag, calls |-> <<>>]
     IN IF auth.calls # <<>>
        THEN /\ inflight' =
                  Becomes(r, [op |-> "deleteMessage", user |-> r.user,
                              message |-> message, pc |-> "getThread"])
             /\ UNCHANGED result
        ELSE IF auth.tag = "ok"
        THEN /\ inflight' = Becomes(r, Authorized(message))
             /\ UNCHANGED result
        ELSE /\ result' = Kind(Outcome("deleteMessage", "thrown", auth.tag,
                                       NoValue), pre.calls)
             /\ inflight' = Gone(r)
  /\ UNCHANGED <<messages, participants, dmLastActive, dmLastSeen, issued>>

\* Lines 175-179: getThread answers.  Reading communityId of a thread that
\* was not found throws; otherwise getUserPermissionsInCommunity is issued.
deleteMessageThread(r) ==
  /\ Waits(r, "deleteMessage", "getThread")
  /\ LET auth == deleteMessageAuthorization(r.user, r.message, Null, Null)
     IN IF auth.calls = <<"getThread">>
        THEN /\ result' = Kind(Outcome("deleteMessage", "thrown", auth.tag,
                                       NoValue),
                               <<"getMessage">> \o auth.calls)
             /\ inflight' = Gone(r)
        ELSE /\ inflight' =
                  Becomes(r, [r EXCEPT !.pc = "getUserPermissionsInCommunity"])
             /\ UNCHANGED result
  /\ UNCHANGED <<messages, participants, dmLastActive, dmLastSeen, issued>>

\* Lines 176-183: getUserPermissionsInCommunity answers and
\* getUserPermissionsInChannel is issued.
deleteMessageCommunity(r, communityPermissions) ==
  /\ Waits(r, "deleteMessage", "getUserPermissionsInCommunity")
  /\ inflight' =
       Becomes(r, [op |-> "deleteMessage", user |-> r.user,
                   message |-> r.message,
                   communityPermissions |-> communityPermissions,
                   pc |-> "getUserPermissionsInChannel"])
  /\ UNCHANGED <<messages, participants, dmLastActive, dmLastSeen, result, issued>>

\* Lines 180-197: getUserPermissionsInChannel answers.  The deletion ends
\* here when the requester cannot moderate and when reading a flag of a
\* missing record throws; otherwise deleteMessage is issued.
deleteMessageChannel(r, channelPermissions) ==
  /\ Waits(r, "deleteMessage", "getUserPermissionsInChannel")
  /\ LET auth == deleteMessageAuthorization(r.user, r.message,
                                            channelPermissions,
                                            r.communityPermissions)
     IN IF auth.tag = "ok"
        THEN /\ inflight' = Becomes(r, Authorized(r.message))
             /\ UNCHANGED result
        ELSE /\ result' = Kind(Outcome("deleteMessage", "thrown", auth.tag,
                                       NoValue),
                               <<"getMessage">> \o auth.calls)
             /\ inflight' = Gone(r)
  /\ UNCHANGED <<messages, participants, dmLastActive, dmLastSeen, issued>>

\* Lines 197-202: deleteMessage answers; a direct-message-thread deletion
\* ends here, every other one issues userHasMessagesInThread.
deleteMessageDelete(r) ==
  /\ Waits(r, "deleteMessage", "deleteMessage")
  /\ messages' = MessagesWithout(messages, r.message.id)
  /\ IF r.message.threadType = "directMessageThread"
     THEN /\ result' = Kind(Outcome("deleteMessage", "returned", "ok", True),
                            <<"getMessage", "deleteMessage">>)
          /\ inflight' = Gone(r)
     ELSE /\ inflight' = Becomes(r, [r EXCEPT !.pc = "userHasMessagesInThread"])
          /\ UNCHANGED result
  /\ UNCHANGED <<participants, dmLastActive, dmLastSeen, issued>>

\* Lines 202-208: userHasMessagesInThread answers; the deletion ends here
\* when the sender has messages left, and issues deleteParticipantInThread
\* otherwise.
deleteMessageCheck(r) ==
  /\ Waits(r, "deleteMessage", "userHasMessagesInThread")
  /\ IF userHasMessagesInThread(messages, r.message.threadId,
                                r.message.senderId)
     THEN /\ result' = Kind(Outcome("deleteMessage", "returned", "ok", True),
                            <<"getMessage", "deleteMessage",
                              "userHasMessagesInThread">>)
          /\ inflight' = Gone(r)
     ELSE /\ inflight' =
               Becomes(r, [r EXCEPT !.pc = "deleteParticipantInThread"])
          /\ UNCHANGED result
  /\ UNCHANGED <<messages, participants, dmLastActive, dmLastSeen, issued>>

\* Lines 208-211: deleteParticipantInThread answers: the sender's participant
\* record is removed and the deletion ends.
deleteMessageRetract(r) ==
  /\ Waits(r, "deleteMessage", "deleteParticipantInThread")
  /\ participants' =
       deleteParticipantInThread(participants, r.message.threadId,
                                 r.message.senderId)
  /\ result' = Kind(Outcome("deleteMessage", "returned", "ok", True),
                    <<"getMessage", "deleteMessage", "userHasMessagesInThread",
                      "deleteParticipantInThread">>)
  /\ inflight' = Gone(r)
  /\ UNCHANGED <<messages, dmLastActive, dmLastSeen, issued>>

\* ---------------------------------------------------------- specifications
Init ==
  /\ messages = {}
  /\ participants = [p \in ThreadIds \X Users |-> "none"]
  /\ dmLastActive = {}
  /\ dmLastSeen = {}
  /\ result = Kind(Outcome("none", "returned", "ok", NoValue), <<>>)
  /\ issued = 0
  /\ inflight = NoRequests

\* A quiet state: no request is in flight and no write is pending.
Quiet == inflight = NoRequests

\* The requests in flight.
Requests == BagToSet(inflight.requests)

\* The steps of the requests in flight.
Continue ==
  \/ \E w \in BagToSet(inflight.writes) : writeLands(w)
  \/ \E r \in Requests : addMessageBegin(r)
  \/ \E r \in Requests, fault \in {"none", "upload"} : addMessageUpload(r, fault)
  \/ \E r \in Requests, fault \in {"none", "store"} : addMessageStore(r, fault)
  \/ \E r \in Requests : addMessageLoadThread(r)
  \/ \E r \in Requests, permissions \in PermValues : addMessageEnd(r, permissions)
  \/ \E r \in Requests : deleteMessageBegin(r)
  \/ \E r \in Requests : deleteMessageThread(r)
  \/ \E r \in Requests, communityPermissions \in PermValues :
       deleteMessageCommunity(r, communityPermissions)
  \/ \E r \in Requests, channelPermissions \in PermValues :
       deleteMessageChannel(r, channelPermissions)
  \/ \E r \in Requests : deleteMessageDelete(r)
  \/ \E r \in Requests : deleteMessageCheck(r)
  \/ \E r \in Requests : deleteMessageRetract(r)

\* The requests clients issue.
Submit(msgs) ==
  \E user \in CurrentUsers, message \in msgs : addMessageCall(user, message)
Delete ==
  \E user \in CurrentUsers, id \in MsgIds : deleteMessageCall(user, id)

\* Spec: submissions to the threads of the Thread Store.
Next ==
  \/ Submit(StoryMessages)
  \/ Delete
  \/ Continue

Spec == Init /\ [][Next]_vars

\* DirectSpec: submissions to the direct-message thread and to the missing
\* thread.
DirectNext ==
  \/ Submit(DirectSpecMessages)
  \/ Delete
  \/ Continue

DirectSpec == Init /\ [][DirectNext]_vars

\* ContentSpec: submissions of the shapes of content.
ContentNext ==
  \/ Submit(ContentSpecMessages)
  \/ Delete
  \/ Continue

ContentSpec == Init /\ [][ContentNext]_vars

\* ------------------------------------------------------------ properties
\* The stores a request ends with.
StoresOf(r) ==
  [messages |-> r.messages, participants |-> r.participants,
   dmLastActive |-> r.dmLastActive, dmLastSeen |-> r.dmLastSeen]

\* The participant record a thread gives its senders.
RecordOf(thread) == IF thread.watercooler THEN "disabled" ELSE "enabled"

\* C1: in every quiet state, a submission and a deletion attempted with
\* no current user end with the Unauthenticated error and leave the Message
\* Store, the Participant Registry and the direct-message timestamps as they
\* were, whatever the message, the collaborators' answers or the message id.
C1_Unauthenticated ==
  Quiet =>
    /\ \A message \in Messages, env \in SubmitEnvs :
         LET r == addMessageRun(Stores, NoUser, message, env.fault,
                                env.permissions)
         IN r.result.tag = "Unauthenticated" /\ StoresOf(r) = Stores
    /\ \A id \in MsgIds, cp \in PermValues, mp \in PermValues :
         LET r == deleteMessageRun(Stores, NoUser, id, cp, mp)
         IN r.result.tag = "Unauthenticated" /\ StoresOf(r) = Stores

\* An unauthenticated deletion was refused while the stores hold messages,
\* participant records and timestamps.
C1_Witness ==
  /\ Quiet
  /\ result.op = "deleteMessage" /\ result.tag = "Unauthenticated"
  /\ messages # {}
  /\ \E p \in DOMAIN participants : participants[p] # "none"
  /\ dmLastSeen # {}

\* In the stores st, every user with an undeleted message sent as a story
\* message to a thread of the Thread Store has a participant record for that
\* thread: notification-disabled when the thread is a watercooler,
\* notification-enabled otherwise.
ParticipantsKept(st) ==
  \A m \in st.messages :
    (m.threadType = "story" /\ getThread(m.threadId) # Null)
      => st.participants[<<m.threadId, m.senderId>>]
           = RecordOf(getThread(m.threadId))

\* C2: requests executed one at a time keep the participant records of the
\* users with undeleted story messages.  The empty stores have the property,
\* and in every quiet state that has it, every submission and every deletion
\* that runs alone, each write it issues landed before the next request
\* starts, ends in stores that have it.
C2_StoryParticipants ==
  (Quiet /\ ParticipantsKept(Stores)) =>
    /\ \A user \in CurrentUsers, message \in Messages :
         \A env \in SubmitEnvsOf(user, message) :
           (UsedIds(messages) # MsgIds)
             => ParticipantsKept(StoresOf(
                  addMessageRun(Stores, user, message, env.fault,
                                env.permissions)))
    /\ \A user \in CurrentUsers, id \in MsgIds, channelPermissions \in PermValues,
          communityPermissions \in PermValues :
         ParticipantsKept(StoresOf(
           deleteMessageRun(Stores, user, id, channelPermissions,
                            communityPermissions)))

\* A quiet state after a deletion that removed the record of the sender in
\* the story thread, while a user has a message and a notification-disabled
\* record in the watercooler thread.
C2_Witness ==
  /\ Quiet
  /\ result.op = "deleteMessage" /\ result.tag = "ok"
  /\ result.last = "deleteParticipantInThread"
  /\ ParticipantsKept(Stores)
  /\ \A u \in Users : participants[<<"t1", u>>] = "none"
  /\ \E m \in messages :
       /\ m.threadType = "story" /\ m.threadId = "t2"
       /\ participants[<<"t2", m.senderId>>] = "disabled"

\* C3: in every quiet state, a submission by a signed-in user to a story
\* thread that is not a watercooler issues the notification-enabled
\* registration and leaves the sender with a notification-enabled record; a
\* submission to a watercooler thread issues the notification-disabled
\* registration only and leaves the sender with a notification-disabled
\* record; no submission issues both registrations.
C3_Registration ==
  Quiet =>
    \A user \in SignedIn, message \in Messages, env \in SubmitEnvs :
      LET r == addMessageRun(Stores, user, message, env.fault, env.permissions)
          thread == getThread(message.threadId)
          key == <<message.threadId, user.id>>
          enabled == "createParticipantInThread" \in Range(r.calls)
          disabled ==
            "createParticipantWithoutNotificationsInThread" \in Range(r.calls)
      IN /\ (message.threadType = "story" /\ thread # Null /\ ~thread.watercooler)
              => (enabled /\ r.participants[key] = "enabled")
         /\ (thread # Null /\ thread.watercooler)
              => (disabled /\ ~enabled /\ r.participants[key] = "disabled")
         /\ ~(enabled /\ disabled)

\* A submission has left one user with a notification-enabled record in the
\* story thread and a notification-disabled record in the watercooler thread.
C3_Witness ==
  /\ Quiet
  /\ result.op = "addMessage"
  /\ \E u \in Users : /\ participants[<<"t1", u>>] = "enabled"
                      /\ participants[<<"t2", u>>] = "disabled"

\* The requester holds an owner or moderator role in the channel or in the
\* community, by the answers of the two permission lookups.
HasRole(channelPermissions, communityPermissions) ==
  \/ channelPermissions # Null
       /\ (channelPermissions.isOwner \/ channelPermissions.isModerator)
  \/ communityPermissions # Null
       /\ (communityPermissions.isOwner \/ communityPermissions.isModerator)

\* The deletions of a stored message: the requester, the message, the answers
\* of the permission lookups.
Deletions ==
  {d \in [user : SignedIn, message : messages, channelPermissions : PermValues,
          communityPermissions : PermValues] : TRUE}
DeletionRun(d) ==
  deleteMessageRun(Stores, d.user, d.message.id, d.channelPermissions,
                   d.communityPermissions)
ByOther(d) == d.message.senderId # d.user.id
IsDM(m) == m.threadType = "directMessageThread"
LookupCalls ==
  {"getThread", "getUserPermissionsInCommunity", "getUserPermissionsInChannel"}

\* C4 (as claimed): in every quiet state, the deletion of another user's
\* message in a thread of the Thread Store that is not a direct-message
\* thread succeeds if and only if the requester is channel owner, community
\* owner, channel moderator or community moderator, and for every other
\* requester the message is still in the Message Store.
C4_ModeratorDeletes ==
  Quiet =>
    \A d \in Deletions :
      (ByOther(d) /\ ~IsDM(d.message) /\ getThread(d.message.threadId) # Null)
        => LET r == DeletionRun(d)
               role == HasRole(d.channelPermissions, d.communityPermissions)
           IN /\ (r.result.tag = "ok") <=> role
              /\ ~role => d.message \in r.messages

\* C5: in every quiet state, a successful deletion of a message that is
\* not a direct-message-thread message removes the original sender's
\* participant record for the thread when the sender has no message left in
\* it, leaves it as it was when the sender has one left, and changes no other
\* participant record (the deleter's included).
C5_Retraction ==
  Quiet =>
    \A d \in Deletions :
      LET r == DeletionRun(d)
          key == <<d.message.threadId, d.message.senderId>>
      IN (~IsDM(d.message) /\ r.result.tag = "ok")
           => /\ d.message \notin r.messages
              /\ IF userHasMessagesInThread(r.messages, key[1], key[2])
                 THEN r.participants[key] = participants[key]
                 ELSE r.participants[key] = "none"
              /\ \A p \in DOMAIN participants :
                   p # key => r.participants[p] = participants[p]

\* A deletion has ended with the removal of a participant record while
\* another user keeps a message and the record for it in the story thread.
C5_Witness ==
  /\ Quiet
  /\ result.op = "deleteMessage" /\ result.tag = "ok"
  /\ result.last = "deleteParticipantInThread"
  /\ \E m \in messages :
       /\ m.threadId = "t1" /\ participants[<<"t1", m.senderId>>] = "enabled"
       /\ \E u \in Users \ {m.senderId} : participants[<<"t1", u>>] = "none"

\* C6: in every quiet state, the deletion of another user's
\* direct-message-thread message ends with Forbidden whatever the answers of
\* the permission lookups, the message stays in the Message Store, and no
\* thread or permission lookup is issued.
C6_DirectMessageForbidden ==
  Quiet =>
    \A d \in Deletions :
      (ByOther(d) /\ IsDM(d.message))
        => LET r == DeletionRun(d)
           IN /\ r.result.tag = "Forbidden"
              /\ StoresOf(r) = Stores
              /\ Range(r.calls) \cap LookupCalls = {}

\* A deletion was refused with Forbidden right after the message was fetched,
\* and the stored messages are direct-message-thread messages.
C6_Witness ==
  /\ Quiet
  /\ result.op = "deleteMessage" /\ result.tag = "Forbidden"
  /\ result.last = "getMessage"
  /\ messages # {} /\ \A m \in messages : IsDM(m)

\* C7: in every quiet state, the deletion of a stored message by its own
\* sender returns true and removes the message from the Message Store,
\* whatever the thread type and the answers of the permission lookups, and
\* issues no thread or permission lookup.
C7_SenderDeletes ==
  Quiet =>
    \A d \in Deletions :
      ~ByOther(d)
        => LET r == DeletionRun(d)
           IN /\ r.result = Outcome("deleteMessage", "returned", "ok", True)
              /\ r.messages = messages \ {d.message}
              /\ Range(r.calls) \cap LookupCalls = {}

\* A deletion of a direct-message-thread message has succeeded: the thread's
\* timestamps are set, and the deletion ended with the store's deleteMessage.
C7_Witness ==
  /\ Quiet
  /\ result.op = "deleteMessage" /\ result.tag = "ok"
  /\ result.last = "deleteMessage"
  /\ messages = {} /\ dmLastSeen # {}

\* C8: in every quiet state, a media submission by a signed-in user whose
\* upload fails never invokes storeMessage, leaves the Message Store as it
\* was and ends with a returned error value.
C8_UploadFailure ==
  Quiet =>
    \A user \in SignedIn, message \in Messages, permissions \in PermValues :
      message.messageType = "media"
        => LET r == addMessageRun(Stores, user, message, "upload", permissions)
           IN /\ "storeMessage" \notin Range(r.calls)
              /\ r.stored = Null
              /\ r.messages = messages
              /\ r.result.how = "returned" /\ r.result.tag = "UpstreamFailure"

\* A media submission has ended with the upload's error after the upload was
\* the last call issued, while the Message Store holds a message.
C8_Witness ==
  /\ Quiet
  /\ result.op = "addMessage" /\ result.tag = "UpstreamFailure"
  /\ result.detail = "upload error" /\ result.last = "uploadImage"
  /\ messages # {}

\* C9: in every quiet state, whenever a submission that is not a
\* direct-message-thread submission is answered with the stored message, the
\* answer is that message with contextPermissions attached, which carry the
\* sender's permission record or, when the loader found none, reputation 0,
\* isModerator false and isOwner false; it is so answered whenever the
\* message was stored in a thread of the Thread Store.  A stored
\* direct-message-thread submission is answered with the stored message
\* itself, with no contextPermissions.
C9_Enrichment ==
  Quiet =>
    \A user \in SignedIn, message \in Messages, env \in SubmitEnvs :
      (UsedIds(messages) # MsgIds) =>
      LET r == addMessageRun(Stores, user, message, env.fault, env.permissions)
          v == r.result.value
          p == env.permissions
      IN IF message.threadType = "directMessageThread"
         THEN r.stored # Null
                => /\ r.result.tag = "ok" /\ v = r.stored
                   /\ "contextPermissions" \notin DOMAIN v
         ELSE /\ (r.stored # Null /\ getThread(message.threadId) # Null)
                   => r.result.tag = "ok"
              /\ r.result.tag = "ok"
                   => /\ "contextPermissions" \in DOMAIN v
                      /\ [f \in DOMAIN r.stored |-> v[f]] = r.stored
                      /\ v.contextPermissions.reputation
                           = (IF p = Null THEN 0 ELSE p.reputation)
                      /\ v.contextPermissions.isModerator
                           = (IF p = Null THEN FALSE ELSE p.isModerator)
                      /\ v.contextPermissions.isOwner
                           = (IF p = Null THEN FALSE ELSE p.isOwner)

\* A submission was answered with a message carrying contextPermissions, and
\* a direct-message-thread message is stored as well.
C9_Witness ==
  /\ Quiet
  /\ result.op = "addMessage" /\ result.tag = "ok"
  /\ result.view = "contextPermissions"
  /\ \E m \in messages : IsDM(m)
  /\ \E m \in messages : ~IsDM(m)

\* C10: in every quiet state, the deletion by a signed-in user of a
\* message id that is not in the Message Store ends with NotFound and leaves
\* the Message Store and the Participant Registry as they were.
C10_NotFound ==
  Quiet =>
    \A user \in SignedIn, id \in MsgIds \ UsedIds(messages),
       cp \in PermValues, mp \in PermValues :
      LET r == deleteMessageRun(Stores, user, id, cp, mp)
      IN /\ r.result.tag = "NotFound"
         /\ r.messages = messages
         /\ r.participants = participants

\* A deletion has ended with NotFound while the Message Store holds another
\* message and the Participant Registry a record.
C10_Witness ==
  /\ Quiet
  /\ result.op = "deleteMessage" /\ result.tag = "NotFound"
  /\ messages # {}
  /\ \E p \in DOMAIN participants : participants[p] # "none"

\* C11: in every quiet state, a submission by a signed-in user whose
\* messageType is none of text, draftjs and media is answered with the
\* returned UnknownMessageType error; it stores no message and attempts no
\* upload, and all it changes are the direct-message timestamps of its thread
\* (a direct-message-thread submission only) and the sender's participant
\* record for its thread: its calls are the thread lookup, the timestamp
\* writes and the registrations.
C11_UnknownMessageType ==
  Quiet =>
    \A user \in SignedIn, message \in Messages, env \in SubmitEnvs :
      message.messageType \notin KnownTypes
        => LET r == addMessageRun(Stores, user, message, env.fault,
                                  env.permissions)
               key == <<message.threadId, user.id>>
           IN /\ r.result
                   = Outcome("addMessage", "returned", "UnknownMessageType", NoValue)
              /\ r.messages = messages /\ r.stored = Null
              /\ Range(r.calls)
                   \subseteq {"getThread"} \cup TimestampCalls \cup RegistrationCalls
              /\ \A p \in DOMAIN participants :
                   p # key => r.participants[p] = participants[p]
              /\ IF message.threadType = "directMessageThread"
                 THEN /\ r.dmLastActive \ dmLastActive \subseteq {message.threadId}
                      /\ r.dmLastSeen \ dmLastSeen \subseteq {key}
                 ELSE r.dmLastActive = dmLastActive /\ r.dmLastSeen = dmLastSeen

\* A submission of an unknown message type was refused right after its
\* registration, and the Message Store is empty.
C11_Witness ==
  /\ Quiet
  /\ result.op = "addMessage" /\ result.tag = "UnknownMessageType"
  /\ result.last \in RegistrationCalls
  /\ messages = {}
  /\ \E p \in DOMAIN participants : participants[p] # "none"

\* C12 (as claimed): in every quiet state, every submission and every
\* deletion, whoever issues it and whatever the collaborators answer, ends
\* with a returned value (on failure: a returned error value); none ends with
\* a throw or a rejection.
C12_ErrorsReturned ==
  Quiet =>
    /\ \A user \in CurrentUsers, message \in Messages, env \in SubmitEnvs :
         addMessageRun(Stores, user, message, env.fault,
                       env.permissions).result.how = "returned"
    /\ \A user \in CurrentUsers, id \in MsgIds, cp \in PermValues,
          mp \in PermValues :
         deleteMessageRun(Stores, user, id, cp, mp).result.how = "returned"

\* C13: in every quiet state with room in the Message Store, a
\* draftjs submission by a signed-in user whose body is read without a throw
\* and whose store write succeeds is stored, and answered with the message.
\* When its first block is a code block and the detector names a language L
\* other than "Unknown" for the text of the document, the stored body is the
\* document with syntax = L in lower case (no upper-case letter is left) in
\* the data of the first block, the blocks otherwise as submitted; when the
\* detector throws or answers "Unknown", the stored body is the submitted
\* body, unchanged.
C13_SyntaxTagging ==
  \A user \in SignedIn, message \in ContentMessages, permissions \in PermValues :
    ( /\ Quiet /\ UsedIds(messages) # MsgIds
      /\ message.messageType = "draftjs"
      /\ draftjsThrows(message.content.body) = "" )
    => LET r == addMessageRun(Stores, user, message, "none", permissions)
           doc == JSONparse(message.content.body)
           firstIsCode ==
             /\ "blocks" \in DOMAIN doc
             /\ Len(doc.blocks) > 0 /\ doc.blocks[1].type = "code-block"
           texts == toPlainText(doc)
           detected ==
             ~detectLangThrows(texts) /\ detectLang(texts) # Unknown
       IN /\ r.stored # Null /\ Row(r.stored) \in r.messages
          /\ r.result.tag = "ok"
          /\ (firstIsCode /\ detected)
               => LET kept == JSONparse(r.stored.content.body).blocks
                      syntax == toLowerCase(detectLang(texts))
                  IN /\ Len(kept) = Len(doc.blocks)
                     /\ <<"syntax", syntax>> \in kept[1].data
                     /\ \A d \in kept[1].data :
                          /\ d[1] = "syntax"
                          /\ Len(d[2]) = Len(detectLang(texts))
                          /\ Range(d[2]) \cap Range(UpperCase) = {}
                     /\ kept[1].type = doc.blocks[1].type
                     /\ kept[1].text = doc.blocks[1].text
                     /\ \A i \in 2..Len(kept) : kept[i] = doc.blocks[i]
          /\ (firstIsCode /\ ~detected)
               => r.stored.content.body = message.content.body

\* A draftjs submission is stored and waits for the loaders: its stored body
\* carries syntax = "html" in the first block, while the Message Store holds
\* another message.
C13_Witness ==
  /\ \E r \in Requests :
       /\ r.op = "addMessage" /\ r.pc = "loaders.thread.load"
       /\ r.message.messageType = "draftjs"
       /\ "blocks" \in DOMAIN JSONparse(r.message.content.body)
       /\ Len(JSONparse(r.message.content.body).blocks) = 1
       /\ <<"syntax", <<"h", "t", "m", "l">> >>
            \in JSONparse(r.message.content.body).blocks[1].data
  /\ Cardinality(messages) = 2

\* C14: in every quiet state with room in the Message Store, a media
\* submission by a signed-in user whose upload and store write succeed stores
\* exactly one message: its content is {body: the uploaded url}, its file is
\* the name, size and type of the submitted file and nothing else, and its
\* threadId, threadType and messageType are those submitted.
C14_MediaStored ==
  Quiet =>
    \A user \in SignedIn, message \in ContentMessages, permissions \in PermValues :
      (UsedIds(messages) # MsgIds /\ message.messageType = "media")
      => LET r == addMessageRun(Stores, user, message, "none", permissions)
         IN /\ r.stored # Null
            /\ r.stored.content
                 = [body |-> uploadImage(message.file, "threads", message.threadId)]
            /\ r.stored.file = [name |-> message.file.name,
                                size |-> message.file.size,
                                type |-> message.file.type]
            /\ r.stored.threadId = message.threadId
            /\ r.stored.threadType = message.threadType
            /\ r.stored.messageType = "media"
            /\ r.stored.senderId = user.id
            /\ Row(r.stored) \notin messages
            /\ r.messages = messages \cup {Row(r.stored)}
            /\ Cardinality({i \in 1..Len(r.calls) : r.calls[i] = "storeMessage"}) = 1

\* A media submission is stored and waits for the loaders: the stored record
\* carries the url of the upload and the metadata of the second file.
C14_Witness ==
  /\ \E r \in Requests :
       /\ r.op = "addMessage" /\ r.pc = "loaders.thread.load"
       /\ r.message.messageType = "media"
       /\ r.message.content.body
            = uploadImage(File2, "threads", r.message.threadId)
       /\ r.message.file
            = [name |-> "dog.gif", size |-> 9, type |-> "image/gif"]
  /\ Cardinality(messages) = 2

\* C15 (as claimed): whenever no request is in flight and no issued write is
\* pending, every user with an undeleted message in a story thread of the
\* Thread Store has a participant record for that thread, however the steps
\* of the submissions and the deletions were interleaved.
C15_InterleavedParticipants ==
  inflight = NoRequests
    => \A m \in messages :
         (m.threadType = "story" /\ getThread(m.threadId) # Null)
           => participants[<<m.threadId, m.senderId>>] # "none"

\* The submissions that fail during classification, upload or persistence:
\* an unknown messageType, a draftjs body whose reading throws, an upload
\* error and a store write error.
FailsEarly(message, fault) ==
  \/ message.messageType \notin KnownTypes
  \/ message.messageType = "draftjs" /\ draftjsThrows(message.content.body) # ""
  \/ message.messageType = "media" /\ fault = "upload"
  \/ message.messageType \in KnownTypes /\ fault = "store"

\* C16 (as claimed): in every quiet state, a submission by a signed-in
\* user that fails during classification, upload or persistence leaves no
\* participant record it created for a (thread, user) pair for which the
\* user has no undeleted message in the thread.
C16_FailedSubmissionParticipants ==
  Quiet =>
    \A user \in SignedIn, message \in Messages, env \in SubmitEnvs :
      FailsEarly(message, env.fault)
        => LET r == addMessageRun(Stores, user, message, env.fault,
                                  env.permissions)
           IN \A p \in DOMAIN participants :
                (r.participants[p] # "none" /\ participants[p] = "none")
                  => userHasMessagesInThread(r.messages, p[1], p[2])

\* C17 (as claimed): in every quiet state with room in the Message
\* Store, a submission by a signed-in user that ends with an error, returned
\* or thrown, has stored no message.
C17_ErrorMeansNotStored ==
  Quiet =>
    \A user \in SignedIn, message \in Messages, env \in SubmitEnvs :
      UsedIds(messages) # MsgIds
        => LET r == addMessageRun(Stores, user, message, env.fault,
                                  env.permissions)
           IN r.result.tag # "ok" => (r.stored = Null /\ r.messages = messages)

\* C18 (as claimed): in every quiet state, the deletion of another
\* user's message that is not a direct-message-thread message never ends
\* with a dereference error; when a permission lookup answers null or the
\* thread is missing, and the requester holds no role by the other answer,
\* it ends with Forbidden or NotFound and the message stays.
C18_NullLookupsRefused ==
  Quiet =>
    \A d \in Deletions :
      (ByOther(d) /\ ~IsDM(d.message))
        => LET r == DeletionRun(d)
               absent == \/ d.channelPermissions = Null
                         \/ d.communityPermissions = Null
                         \/ getThread(d.message.threadId) = Null
           IN /\ r.result.tag # "TypeError"
              /\ (absent /\ ~HasRole(d.channelPermissions, d.communityPermissions))
                   => /\ r.result.tag \in {"Forbidden", "NotFound"}
                      /\ r.messages = messages

\* C19 (as claimed): in every quiet state with room in the Message
\* Store, a submission by a signed-in user to a thread the Thread Store does
\* not hold issues no registration, leaves the Participant Registry as it
\* was, and does not end with the error of a dereference of the missing
\* thread.
C19_MissingThread ==
  Quiet =>
    \A user \in SignedIn, message \in Messages, env \in SubmitEnvs :
      (UsedIds(messages) # MsgIds /\ getThread(message.threadId) = Null)
        => LET r == addMessageRun(Stores, user, message, env.fault,
                                  env.permissions)
           IN /\ Range(r.calls) \cap RegistrationCalls = {}
              /\ r.participants = participants
              /\ ~(r.result.tag = "UpstreamFailure"
                     /\ r.result.value.message = "TypeError")

\* The direct-message-thread submissions: a client names any thread id with
\* the thread type.
DirectMessages ==
  {MessageInput(t, "directMessageThread", "text", PlainBody, Null)
     : t \in ThreadIds}

\* C20 (as claimed): in every quiet state, a submission with threadType
\* directMessageThread by a signed-in user issues no registration and leaves
\* the Participant Registry as it was, and the deletion of a stored
\* direct-message-thread message neither queries userHasMessagesInThread nor
\* removes a participant record.
C20_DirectMessageRegistry ==
  Quiet =>
    /\ \A user \in SignedIn, message \in DirectMessages, env \in SubmitEnvs :
         LET r == addMessageRun(Stores, user, message, env.fault,
                                env.permissions)
         IN /\ Range(r.calls) \cap RegistrationCalls = {}
            /\ r.participants = participants
    /\ \A d \in Deletions :
         IsDM(d.message)
           => LET r == DeletionRun(d)
              IN /\ r.participants = participants
                 /\ Range(r.calls) \cap {"userHasMessagesInThread",
                                         "deleteParticipantInThread"} = {}

====
